---- MODULE Spec2Model ----
(***************************************************************************)
(* Model of pycobertura/reporters.py: the row builders (Reporter,          *)
(* DeltaReporter) and the row formatters (TextReporter, TextReporterDelta, *)
(* HtmlReporterDelta).  The coverage snapshots (Cobertura), the diff       *)
(* engine (CoberturaDiff) and utils.rangify / utils.green / utils.red are  *)
(* collaborators imported by reporters.py; they are modelled from the      *)
(* written specification of their interface.                               *)
(***************************************************************************)
EXTENDS Integers, Sequences, FiniteSets, TLC

VARIABLES
    pc,             \* position of the caller: "start", "constructed", "reported", "formatted", "generated"
    kind,           \* class of the reporter object constructed
    cobertura,      \* Reporter.cobertura: [data, order], order that of its class_files()
    differ,         \* DeltaReporter.differ
    show_source,    \* DeltaReporter.show_source
    color,          \* TextReporterDelta.color
    lines,          \* value returned by get_report_lines()
    row,            \* argument of format_row()
    formatted,      \* value returned by format_row()
    source_hunks,   \* what get_source_hunks() returned, per file, during generate()
    render_kwargs   \* keyword arguments generate() hands to template.render

vars == <<pc, kind, cobertura, differ, show_source, color, lines, row,
          formatted, source_hunks, render_kwargs>>

----------------------------------------------------------------------------
(* Bounds of the model *)

MaxStmts == 1       \* statements per file
MaxLine == 2        \* highest line number of a snapshot file
MaxLineNo == 10     \* highest line number of a row given to TextReporter.format_row

Files == {"a.py", "b.py"}

None == "None"      \* the omitted identifier argument

----------------------------------------------------------------------------
(* Generic helpers *)

Min(S) == CHOOSE x \in S : \A y \in S : x <= y

RECURSIVE SortedSeq(_)
\* Python's sorted() on a set of integers
SortedSeq(S) == IF S = {} THEN <<>> ELSE <<Min(S)>> \o SortedSeq(S \ {Min(S)})

RECURSIVE SumOver(_, _)
SumOver(f, S) ==
    IF S = {} THEN 0
    ELSE LET x == CHOOSE y \in S : TRUE IN f[x] + SumOver(f, S \ {x})

Range(s) == {s[i] : i \in 1..Len(s)}

Perms(S) == {s \in [1..Cardinality(S) -> S] : Range(s) = S}

Abs(n) == IF n < 0 THEN -n ELSE n

RECURSIVE Gcd(_, _)
Gcd(a, b) == IF b = 0 THEN a ELSE Gcd(b, a % b)

\* A rate is an exact fraction <<numerator, denominator>> in lowest terms,
\* denominator > 0.  The floats of the program are quotients of small
\* integers: two of them are equal, and their difference is 0.0, exactly
\* when the fractions are equal.
Rat(n, d) == LET g == Gcd(Abs(n), d) IN <<n \div g, d \div g>>

RatSub(x, y) == Rat(x[1] * y[2] - y[1] * x[2], x[2] * y[2])

RatNeg(x) == <<-x[1], x[2]>>

RatZero == <<0, 1>>

----------------------------------------------------------------------------
(* CoverageSource: one snapshot, a function from the identifiers present  *)
(* to [statements, missed].                                                *)

FileData ==
    {d \in [statements : 0..MaxStmts, missed : SUBSET (1..MaxLine)] :
        Cardinality(d.missed) <= d.statements}

Coberturas == UNION {[D -> FileData] : D \in SUBSET Files}

EmptyCobertura == [f \in {} |-> 0]

\* the snapshot a Reporter holds, with the order its class_files() enumerates
Cobertura(c, ord) == [data |-> c, order |-> ord]

NoCobertura == Cobertura(EmptyCobertura, <<>>)

Cobertura_class_files(cob) == cob.order

Cobertura_total_statements(c, class_name) ==
    IF class_name = None
    THEN SumOver([f \in DOMAIN c |-> c[f].statements], DOMAIN c)
    ELSE c[class_name].statements

Cobertura_total_misses(c, class_name) ==
    IF class_name = None
    THEN SumOver([f \in DOMAIN c |-> Cardinality(c[f].missed)], DOMAIN c)
    ELSE Cardinality(c[class_name].missed)

Cobertura_line_rate(c, class_name) ==
    LET t == Cobertura_total_statements(c, class_name)
        m == Cobertura_total_misses(c, class_name)
    IN IF t = 0 THEN RatZero ELSE Rat(t - m, t)

Cobertura_missed_lines(c, class_name) == SortedSeq(c[class_name].missed)

----------------------------------------------------------------------------
(* CoverageDiffEngine (CoberturaDiff):                                     *)
(*   d = [cobertura1, cobertura2, order, sourced]                          *)
(* order is the order in which class_files() enumerates the union, sourced *)
(* the identifiers for which both snapshots expose source text.            *)

CoberturaDiff(c1, c2, ord, src) ==
    [cobertura1 |-> c1, cobertura2 |-> c2, order |-> ord, sourced |-> src]

NoDiffer == CoberturaDiff(EmptyCobertura, EmptyCobertura, <<>>, {})

class_files(d) == d.order

Present(c, class_name) == class_name = None \/ class_name \in DOMAIN c

diff_total_statements(d, class_name) ==
    (IF Present(d.cobertura2, class_name)
        THEN Cobertura_total_statements(d.cobertura2, class_name) ELSE 0)
    - (IF Present(d.cobertura1, class_name)
        THEN Cobertura_total_statements(d.cobertura1, class_name) ELSE 0)

diff_total_misses(d, class_name) ==
    (IF Present(d.cobertura2, class_name)
        THEN Cobertura_total_misses(d.cobertura2, class_name) ELSE 0)
    - (IF Present(d.cobertura1, class_name)
        THEN Cobertura_total_misses(d.cobertura1, class_name) ELSE 0)

diff_line_rate(d, class_name) ==
    RatSub(IF Present(d.cobertura2, class_name)
               THEN Cobertura_line_rate(d.cobertura2, class_name) ELSE RatZero,
           IF Present(d.cobertura1, class_name)
               THEN Cobertura_line_rate(d.cobertura1, class_name) ELSE RatZero)

MissedSet(c, class_name) ==
    IF class_name \in DOMAIN c THEN c[class_name].missed ELSE {}

diff_missed_lines(d, class_name) ==
    LET old == MissedSet(d.cobertura1, class_name)
        new == MissedSet(d.cobertura2, class_name)
        changed == SortedSeq((old \ new) \cup (new \ old))
    IN [i \in 1..Len(changed) |-> <<changed[i], changed[i] \in new>>]

----------------------------------------------------------------------------
(* Rows: the namedtuples ClassRow and ClassRowMissed *)

class_row(class_filename, total_statements, total_misses, line_rate) ==
    [class_filename |-> class_filename, total_statements |-> total_statements,
     total_misses |-> total_misses, line_rate |-> line_rate]

class_row_missed(class_filename, total_statements, total_misses, line_rate, missed_lines) ==
    [class_filename |-> class_filename, total_statements |-> total_statements,
     total_misses |-> total_misses, line_rate |-> line_rate,
     missed_lines |-> missed_lines]

HasMissed(r) == "missed_lines" \in DOMAIN r

\* The values show_source takes: True, False, and a truthy value that is not
\* the boolean True (a falsy value other than False takes the paths of False).
ShowSourceValues == {"True", "False", "1"}

IsTrue(v) == v = "True"             \* `v is True`

Truthy(v) == v \in {"True", "1"}    \* `if v:`

----------------------------------------------------------------------------
(* Reporter *)

Reporter_get_report_lines(cob) ==
    LET c == cob.data
        ord == Cobertura_class_files(cob)
    IN
    [i \in 1..Len(ord) |->
        class_row_missed(ord[i],
                         Cobertura_total_statements(c, ord[i]),
                         Cobertura_total_misses(c, ord[i]),
                         Cobertura_line_rate(c, ord[i]),
                         Cobertura_missed_lines(c, ord[i]))]
    \o <<class_row_missed("TOTAL",
                          Cobertura_total_statements(c, None),
                          Cobertura_total_misses(c, None),
                          Cobertura_line_rate(c, None),
                          <<>>)>>

----------------------------------------------------------------------------
(* DeltaReporter *)

\* get_class_row reporting the new snapshot's statement count instead of the delta
get_class_row_new_totals(d, ss, class_name) ==
    LET st == IF Present(d.cobertura2, class_name)
                 THEN Cobertura_total_statements(d.cobertura2, class_name) ELSE 0
    IN IF IsTrue(ss)
       THEN class_row_missed(class_name, st,
                             diff_total_misses(d, class_name),
                             diff_line_rate(d, class_name),
                             diff_missed_lines(d, class_name))
       ELSE class_row(class_name, st,
                      diff_total_misses(d, class_name),
                      diff_line_rate(d, class_name))

\* get_class_row reporting the magnitude of the miss delta
get_class_row_abs_misses(d, ss, class_name) ==
    IF IsTrue(ss)
    THEN class_row_missed(class_name,
                          diff_total_statements(d, class_name),
                          Abs(diff_total_misses(d, class_name)),
                          diff_line_rate(d, class_name),
                          diff_missed_lines(d, class_name))
    ELSE class_row(class_name,
                   diff_total_statements(d, class_name),
                   Abs(diff_total_misses(d, class_name)),
                   diff_line_rate(d, class_name))

get_class_row(d, ss, class_name) ==
    IF IsTrue(ss)
    THEN class_row_missed(class_name,
                          diff_total_statements(d, class_name),
                          diff_total_misses(d, class_name),
                          diff_line_rate(d, class_name),
                          diff_missed_lines(d, class_name))
    ELSE class_row(class_name,
                   diff_total_statements(d, class_name),
                   diff_total_misses(d, class_name),
                   diff_line_rate(d, class_name))

\* get_footer_row filling the footer's missed lines from the first file
get_footer_row_with_lines(d, ss) ==
    LET ml == IF d.order = <<>> THEN <<>> ELSE diff_missed_lines(d, d.order[1])
    IN IF Truthy(ss)
       THEN class_row_missed("TOTAL",
                             diff_total_statements(d, None),
                             diff_total_misses(d, None),
                             diff_line_rate(d, None),
                             ml)
       ELSE class_row("TOTAL",
                      diff_total_statements(d, None),
                      diff_total_misses(d, None),
                      diff_line_rate(d, None))

\* get_footer_row summing only the files whose row has a nonzero field
get_footer_row_from_rows(d, ss) ==
    LET kept == {f \in Range(d.order) :
                    \/ diff_total_statements(d, f) # 0
                    \/ diff_total_misses(d, f) # 0
                    \/ diff_line_rate(d, f)[1] # 0
                    \/ (IsTrue(ss) /\ diff_missed_lines(d, f) # <<>>)}
        r1 == [f \in DOMAIN d.cobertura1 \cap kept |-> d.cobertura1[f]]
        r2 == [f \in DOMAIN d.cobertura2 \cap kept |-> d.cobertura2[f]]
        rd == CoberturaDiff(r1, r2, d.order, d.sourced)
    IN IF Truthy(ss)
       THEN class_row_missed("TOTAL",
                             diff_total_statements(rd, None),
                             diff_total_misses(rd, None),
                             diff_line_rate(rd, None),
                             <<>>)
       ELSE class_row("TOTAL",
                      diff_total_statements(rd, None),
                      diff_total_misses(rd, None),
                      diff_line_rate(rd, None))

get_footer_row(d, ss) ==
    IF Truthy(ss)
    THEN class_row_missed("TOTAL",
                          diff_total_statements(d, None),
                          diff_total_misses(d, None),
                          diff_line_rate(d, None),
                          <<>>)
    ELSE class_row("TOTAL",
                   diff_total_statements(d, None),
                   diff_total_misses(d, None),
                   diff_line_rate(d, None))

\* any() looking at the three scalar fields only
any_tail_scalars(r) ==
    \/ r.total_statements # 0
    \/ r.total_misses # 0
    \/ r.line_rate[1] # 0

\* any(class_row[1:]): the truth value of every field after the first
any_tail(r) ==
    \/ r.total_statements # 0
    \/ r.total_misses # 0
    \/ r.line_rate[1] # 0
    \/ (HasMissed(r) /\ r.missed_lines # <<>>)

\* get_report_lines putting the footer first
get_report_lines_footer_first(d, ss) ==
    LET ord == class_files(d)
        rows == [i \in 1..Len(ord) |-> get_class_row(d, ss, ord[i])]
    IN <<get_footer_row(d, ss)>> \o SelectSeq(rows, any_tail)

get_report_lines(d, ss) ==
    LET ord == class_files(d)
        rows == [i \in 1..Len(ord) |-> get_class_row(d, ss, ord[i])]
    IN SelectSeq(rows, any_tail) \o <<get_footer_row(d, ss)>>

----------------------------------------------------------------------------
(* Specification of the row builders *)

Init ==
    /\ pc = "start"
    /\ kind = "none"
    /\ cobertura = NoCobertura
    /\ differ = NoDiffer
    /\ show_source = "True"
    /\ color = FALSE
    /\ lines = <<>>
    /\ row = <<>>
    /\ formatted = <<>>
    /\ source_hunks = <<>>
    /\ render_kwargs = <<>>

\* Reporter.__init__
NewReporter ==
    /\ pc = "start"
    /\ \E c \in Coberturas :
         \E ord \in Perms(DOMAIN c) : cobertura' = Cobertura(c, ord)
    /\ kind' = "Reporter"
    /\ pc' = "constructed"
    /\ UNCHANGED <<differ, show_source, color, lines, row, formatted, source_hunks,
                   render_kwargs>>

\* DeltaReporter.__init__
NewDeltaReporter ==
    /\ pc = "start"
    /\ \E c1 \in Coberturas, c2 \in Coberturas, ss \in ShowSourceValues :
         /\ \E ord \in Perms(DOMAIN c1 \cup DOMAIN c2) :
              differ' = CoberturaDiff(c1, c2, ord, DOMAIN c1 \cap DOMAIN c2)
         /\ show_source' = ss
    /\ kind' = "DeltaReporter"
    /\ pc' = "constructed"
    /\ UNCHANGED <<cobertura, color, lines, row, formatted, source_hunks, render_kwargs>>

\* Reporter.get_report_lines
ReporterGetReportLines ==
    /\ pc = "constructed"
    /\ kind = "Reporter"
    /\ lines' = Reporter_get_report_lines(cobertura)
    /\ pc' = "reported"
    /\ UNCHANGED <<kind, cobertura, differ, show_source, color, row, formatted,
                   source_hunks, render_kwargs>>

\* DeltaReporter.get_report_lines
DeltaGetReportLines ==
    /\ pc = "constructed"
    /\ kind = "DeltaReporter"
    /\ lines' = get_report_lines(differ, show_source)
    /\ pc' = "reported"
    /\ UNCHANGED <<kind, cobertura, differ, show_source, color, row, formatted,
                   source_hunks, render_kwargs>>

Next ==
    \/ NewReporter
    \/ NewDeltaReporter
    \/ ReporterGetReportLines
    \/ DeltaGetReportLines

Spec == Init /\ [][Next]_vars

----------------------------------------------------------------------------
(* Properties of the row builders (specification Spec) *)

DeltaReported == pc = "reported" /\ kind = "DeltaReporter"

Footer == lines[Len(lines)]

Body == SubSeq(lines, 1, Len(lines) - 1)

BodyIds == {Body[i].class_filename : i \in 1..Len(Body)}

AllFiles == Range(differ.order)

ScalarsNonzero(f) ==
    \/ diff_total_statements(differ, f) # 0
    \/ diff_total_misses(differ, f) # 0
    \/ diff_line_rate(differ, f)[1] # 0

\* A net-neutral substitution: no scalar delta, yet the missed lines differ.
Shuffled(f) == ~ScalarsNonzero(f) /\ diff_missed_lines(differ, f) # <<>>

\* C1 as stated: with show_source True or False, a per-file row is kept if
\* and only if one of its three scalar deltas is nonzero, so a file whose
\* scalar deltas are all zero is dropped even when its missed-line diff is
\* non-empty.
C1_KeptIffScalarDelta ==
    DeltaReported /\ show_source \in {"True", "False"} =>
        \A f \in AllFiles : (f \in BodyIds) <=> ScalarsNonzero(f)

\* C1 amended: for every show_source, a per-file row is kept if and only if
\* one of its three scalar deltas is nonzero or (show_source is True and its
\* missed-line diff is non-empty).
C1_KeptIffAnyField ==
    DeltaReported =>
        \A f \in AllFiles :
            (f \in BodyIds) <=>
                (ScalarsNonzero(f) \/ (IsTrue(show_source) /\ Shuffled(f)))

C1_Witness ==
    /\ DeltaReported
    /\ \E f \in AllFiles, g \in AllFiles :
         /\ IsTrue(show_source) /\ Shuffled(f) /\ f \in BodyIds
         /\ ~ScalarsNonzero(g) /\ g \notin BodyIds

IsSubsequence(s, t) ==
    \E idx \in [1..Len(s) -> 1..Len(t)] :
        /\ \A i \in 1..Len(s) : s[i] = t[idx[i]]
        /\ \A i \in 1..Len(s), j \in 1..Len(s) : i < j => idx[i] < idx[j]

\* C2: the report is never empty, its last row is the totals row, and the
\* rows before it are an order-preserving subsequence of the class_files()
\* enumeration, no identifier twice.
C2_FooterLastRowsInOrder ==
    DeltaReported =>
        /\ Len(lines) >= 1
        /\ Footer = get_footer_row(differ, show_source)
        /\ IsSubsequence([i \in 1..Len(Body) |-> Body[i].class_filename],
                         class_files(differ))
        /\ \A i \in 1..Len(Body) : Body[i] = get_class_row(differ, show_source, Body[i].class_filename)

C2_Witness ==
    /\ DeltaReported
    /\ Len(differ.order) = 2
    /\ Len(lines) = 3
    /\ lines[1].class_filename = "b.py"

MissedOf(r) == IF HasMissed(r) THEN r.missed_lines ELSE <<>>

\* C3: the totals row never carries per-line detail: the footer built by
\* Reporter, and by DeltaReporter whenever show_source is truthy, has
\* missed_lines = <<>>, and the footer of a DeltaReporter with a falsy
\* show_source has no missed_lines at all.
C3_FooterHasNoLineDetail ==
    pc = "reported" =>
        /\ MissedOf(Footer) = <<>>
        /\ (kind = "Reporter" \/ Truthy(show_source)) => HasMissed(Footer)
        /\ Footer.class_filename = "TOTAL"

C3_Witness ==
    /\ DeltaReported
    /\ IsTrue(show_source)
    /\ Len(lines) = 3
    /\ \A i \in 1..2 : lines[i].missed_lines # <<>>
    /\ Footer.missed_lines = <<>>

\* C4: a snapshot diffed against itself reports one row only, the totals row,
\* whose three scalar deltas are zero.
C4_SelfDiffOnlyZeroTotals ==
    DeltaReported /\ differ.cobertura1 = differ.cobertura2 =>
        /\ Len(lines) = 1
        /\ lines[1].class_filename = "TOTAL"
        /\ lines[1].total_statements = 0
        /\ lines[1].total_misses = 0
        /\ lines[1].line_rate = RatZero

C4_Witness ==
    /\ DeltaReported
    /\ differ.cobertura1 = differ.cobertura2
    /\ DOMAIN differ.cobertura1 = Files
    /\ \E f \in Files : differ.cobertura1[f].missed # {}
    /\ Len(lines) = 1

StatementsIn(c, f) == IF f \in DOMAIN c THEN c[f].statements ELSE 0

MissesIn(c, f) == IF f \in DOMAIN c THEN Cardinality(c[f].missed) ELSE 0

WholeRate(c) ==
    LET t == SumOver([f \in AllFiles |-> StatementsIn(c, f)], AllFiles)
        m == SumOver([f \in AllFiles |-> MissesIn(c, f)], AllFiles)
    IN IF t = 0 THEN RatZero ELSE Rat(t - m, t)

Unchanged(f) ==
    /\ f \in DOMAIN differ.cobertura1 \cap DOMAIN differ.cobertura2
    /\ differ.cobertura1[f] = differ.cobertura2[f]

Flipped(m1, m2) ==
    /\ Len(m1) = Len(m2)
    /\ \A i \in 1..Len(m1) : m1[i][1] = m2[i][1] /\ m1[i][2] = ~m2[i][2]

Mirrored(r1, r2) ==
    /\ r1.class_filename = r2.class_filename
    /\ r2.total_statements = -r1.total_statements
    /\ r2.total_misses = -r1.total_misses
    /\ r2.line_rate = RatNeg(r1.line_rate)
    /\ HasMissed(r1) = HasMissed(r2)
    /\ HasMissed(r1) => Flipped(r1.missed_lines, r2.missed_lines)

\* C6: the report of the swapped pair names the same files, and each of its
\* rows, the totals row included, has every scalar delta negated and every
\* is_new flag flipped.
C6_SwapNegatesAndFlips ==
    DeltaReported =>
        \A ord \in Perms(AllFiles) :
            LET sw == get_report_lines(
                          CoberturaDiff(differ.cobertura2, differ.cobertura1, ord,
                                        differ.sourced),
                          show_source)
            IN /\ Len(sw) = Len(lines)
               /\ {sw[i].class_filename : i \in 1..Len(sw) - 1} = BodyIds
               /\ Mirrored(Footer, sw[Len(sw)])
               /\ \A i \in 1..Len(lines) - 1 :
                    \E j \in 1..Len(sw) - 1 : Mirrored(lines[i], sw[j])

C6_Witness ==
    /\ DeltaReported
    /\ IsTrue(show_source)
    /\ Len(lines) = 3
    /\ lines[1].total_misses > 0
    /\ lines[1].missed_lines = <<<<2, TRUE>>>>
    /\ lines[2].missed_lines = <<<<1, FALSE>>, <<2, TRUE>>>>
    /\ Footer.line_rate[1] < 0

\* C10 as stated: whatever show_source is, either every row of a report has
\* the missed_lines field or none has.
C10_RowsShareOneShape ==
    DeltaReported =>
        \A i \in 1..Len(lines), j \in 1..Len(lines) :
            HasMissed(lines[i]) = HasMissed(lines[j])

----------------------------------------------------------------------------
(* Text: a Python str is the sequence of its characters *)

DigitChar == <<"0", "1", "2", "3", "4", "5", "6", "7", "8", "9">>

RECURSIVE Digits(_)
\* the decimal digits of n >= 0
Digits(n) ==
    IF n < 10 THEN <<DigitChar[n + 1]>>
    ELSE Digits(n \div 10) \o <<DigitChar[(n % 10) + 1]>>

\* '%s' % n and '%d' % n
Str(n) == IF n < 0 THEN <<"-">> \o Digits(-n) ELSE Digits(n)

\* '%+d' % n
SignedStr(n) == IF n < 0 THEN <<"-">> \o Digits(-n) ELSE <<"+">> \o Digits(n)

\* The digits '%.2f' prints for |x|, x = <<n, d>>: |x| rounded to the nearest
\* hundredth (no fraction with a denominator under 32 lies halfway).
Fixed2(x) ==
    LET h == (2 * 100 * Abs(x[1]) + x[2]) \div (2 * x[2])
    IN Digits(h \div 100) \o <<".">> \o
       <<DigitChar[((h % 100) \div 10) + 1], DigitChar[(h % 10) + 1]>>

\* '%.2f%%' % (rate * 100)
Percent(rate) ==
    (IF rate[1] < 0 THEN <<"-">> ELSE <<>>)
    \o Fixed2(<<rate[1] * 100, rate[2]>>) \o <<"%">>

\* '%+.2f%%' % (rate * 100)
SignedPercent(rate) ==
    (IF rate[1] < 0 THEN <<"-">> ELSE <<"+">>)
    \o Fixed2(<<rate[1] * 100, rate[2]>>) \o <<"%">>

RECURSIVE Join(_, _)
\* sep.join(items)
Join(sep, items) ==
    IF items = <<>> THEN <<>>
    ELSE IF Len(items) = 1 THEN items[1]
    ELSE items[1] \o sep \o Join(sep, Tail(items))

----------------------------------------------------------------------------
(* LineRangeCompressor (utils.rangify): one pass over the ascending list *)

RECURSIVE rangify_loop(_, _, _, _, _)
rangify_loop(number_list, i, range_start, prev_num, ranges) ==
    IF i > Len(number_list)
    THEN Append(ranges, <<range_start, prev_num>>)
    ELSE IF number_list[i] # prev_num + 1
         THEN rangify_loop(number_list, i + 1, number_list[i], number_list[i],
                           Append(ranges, <<range_start, prev_num>>))
         ELSE rangify_loop(number_list, i + 1, range_start, number_list[i], ranges)

rangify(number_list) ==
    IF number_list = <<>> THEN <<>>
    ELSE rangify_loop(number_list, 2, number_list[1], number_list[1], <<>>)

----------------------------------------------------------------------------
(* TextReporter *)

\* format_row writing every run as 'start-stop', one-line runs too
TextReporter_format_row_always_range(r) ==
    LET ranges == rangify(r.missed_lines)
        items == [i \in 1..Len(ranges) |->
                    Str(ranges[i][1]) \o <<"-">> \o Str(ranges[i][2])]
    IN class_row_missed(r.class_filename, r.total_statements, r.total_misses,
                        Percent(r.line_rate), Join(<<",", " ">>, items))

TextReporter_format_row(r) ==
    LET ranges == rangify(r.missed_lines)
        items == [i \in 1..Len(ranges) |->
                    IF ranges[i][1] = ranges[i][2]
                    THEN Str(ranges[i][1])
                    ELSE Str(ranges[i][1]) \o <<"-">> \o Str(ranges[i][2])]
    IN class_row_missed(r.class_filename, r.total_statements, r.total_misses,
                        Percent(r.line_rate), Join(<<",", " ">>, items))

----------------------------------------------------------------------------
(* Specification of TextReporter.format_row: the rows Reporter builds for   *)
(* a file of MaxLineNo statements, and its totals row.                      *)

TextRows ==
    {class_row_missed("a.py", MaxLineNo, Cardinality(M),
                      Rat(MaxLineNo - Cardinality(M), MaxLineNo), SortedSeq(M)) :
        M \in SUBSET (1..MaxLineNo)}
    \cup
    {class_row_missed("TOTAL", MaxLineNo, k, Rat(MaxLineNo - k, MaxLineNo), <<>>) :
        k \in 0..MaxLineNo}

InitText ==
    /\ pc = "constructed"
    /\ kind = "TextReporter"
    /\ cobertura = NoCobertura
    /\ differ = NoDiffer
    /\ show_source = "True"
    /\ color = FALSE
    /\ lines = <<>>
    /\ row \in TextRows
    /\ formatted = <<>>
    /\ source_hunks = <<>>
    /\ render_kwargs = <<>>

\* TextReporter.format_row
TextFormatRow ==
    /\ pc = "constructed"
    /\ kind = "TextReporter"
    /\ formatted' = TextReporter_format_row(row)
    /\ pc' = "formatted"
    /\ UNCHANGED <<kind, cobertura, differ, show_source, color, lines, row,
                   source_hunks, render_kwargs>>

NextText == TextFormatRow

SpecText == InitText /\ [][NextText]_vars

----------------------------------------------------------------------------
(* Properties of TextReporter.format_row (specification SpecText) *)

TextFormatted == pc = "formatted" /\ kind = "TextReporter"

\* the maximal runs of consecutive numbers of S
MaximalRuns(S) ==
    {run \in S \X S :
        /\ run[1] <= run[2]
        /\ \A n \in run[1]..run[2] : n \in S
        /\ (run[1] - 1) \notin S
        /\ (run[2] + 1) \notin S}

RunText(run) ==
    IF run[1] = run[2] THEN Str(run[1])
    ELSE Str(run[1]) \o <<"-">> \o Str(run[2])

\* the runs of S, written and listed by ascending start
RunsText(S) ==
    LET runs == MaximalRuns(S)
        starts == SortedSeq({run[1] : run \in runs})
    IN [i \in 1..Len(starts) |->
            RunText(CHOOSE run \in runs : run[1] = starts[i])]

\* C7: the 'Missing' text of a row is its maximal runs of consecutive line
\* numbers in ascending order, joined by ', ', a one-line run written as the
\* number and a longer one as 'start-stop'; every line number lies in exactly
\* one run, the empty list gives the empty text, and 1,2,3,7,8,10 gives
\* '1-3, 7-8, 10'.
C7_MissingListsMaximalRuns ==
    TextFormatted =>
        LET S == Range(row.missed_lines) IN
        /\ formatted.missed_lines = Join(<<",", " ">>, RunsText(S))
        /\ \A n \in S :
             Cardinality({run \in MaximalRuns(S) : run[1] <= n /\ n <= run[2]}) = 1
        /\ row.missed_lines = <<>> => formatted.missed_lines = <<>>
        /\ row.missed_lines = <<1, 2, 3, 7, 8, 10>> =>
             formatted.missed_lines =
                <<"1", "-", "3", ",", " ", "7", "-", "8", ",", " ", "1", "0">>

C7_Witness ==
    /\ TextFormatted
    /\ row.missed_lines = <<1, 2, 3, 7, 8, 10>>
    /\ formatted.missed_lines =
          <<"1", "-", "3", ",", " ", "7", "-", "8", ",", " ", "1", "0">>
    /\ formatted.line_rate = <<"4", "0", ".", "0", "0", "%">>

----------------------------------------------------------------------------
(* CoberturaDiff.class_source_hunks: the lines of the file within           *)
(* ContextWindow lines of a line whose missed status changed, grouped into  *)
(* runs; empty when a side lacks the source text.                           *)

ContextWindow == 3

LineStatus(d, class_name, n) ==
    LET old == MissedSet(d.cobertura1, class_name)
        new == MissedSet(d.cobertura2, class_name)
    IN IF n \in new \ old THEN "new-miss"
       ELSE IF n \in old \ new THEN "fixed-miss"
       ELSE "unchanged"

class_source_hunks(d, class_name) ==
    IF class_name \notin d.sourced THEN <<>>
    ELSE LET changed == {n \in 1..MaxLine : LineStatus(d, class_name, n) # "unchanged"}
             shown == {n \in 1..MaxLine :
                          \E c \in changed : Abs(n - c) <= ContextWindow}
             runs == rangify(SortedSeq(shown))
         IN [i \in 1..Len(runs) |->
                [k \in 1..(runs[i][2] - runs[i][1] + 1) |->
                    <<runs[i][1] + k - 1,
                      LineStatus(d, class_name, runs[i][1] + k - 1)>>]]

----------------------------------------------------------------------------
(* utils.green, utils.red: the text between a colour code and the reset *)

green(text) == <<"ESC[32m">> \o text \o <<"ESC[39m">>

red(text) == <<"ESC[31m">> \o text \o <<"ESC[39m">>

----------------------------------------------------------------------------
(* TextReporterDelta *)

\* format_row with the two markers exchanged
TextReporterDelta_format_row_swapped(r, ss, col) ==
    LET total_statements ==
            IF r.total_statements # 0 THEN SignedStr(r.total_statements) ELSE <<"-">>
        line_rate ==
            IF r.line_rate[1] # 0 THEN SignedPercent(r.line_rate) ELSE <<"-">>
        plain_misses ==
            IF r.total_misses # 0 THEN SignedStr(r.total_misses) ELSE <<"-">>
        total_misses ==
            IF col /\ plain_misses # <<"-">>
            THEN IF plain_misses[1] = "+" THEN red(plain_misses) ELSE green(plain_misses)
            ELSE plain_misses
    IN IF IsTrue(ss)
       THEN LET missed_lines ==
                    [k \in 1..Len(r.missed_lines) |->
                        <<IF r.missed_lines[k][2] THEN "-" ELSE "+">>
                        \o Str(r.missed_lines[k][1])]
                missed_lines_colored ==
                    IF col
                    THEN [k \in 1..Len(missed_lines) |->
                            IF missed_lines[k][1] = "+"
                            THEN red(missed_lines[k]) ELSE green(missed_lines[k])]
                    ELSE missed_lines
            IN <<r.class_filename, total_statements, total_misses, line_rate,
                 Join(<<",", " ">>, missed_lines_colored)>>
       ELSE <<r.class_filename, total_statements, total_misses, line_rate>>

TextReporterDelta_format_row(r, ss, col) ==
    LET total_statements ==
            IF r.total_statements # 0 THEN SignedStr(r.total_statements) ELSE <<"-">>
        line_rate ==
            IF r.line_rate[1] # 0 THEN SignedPercent(r.line_rate) ELSE <<"-">>
        plain_misses ==
            IF r.total_misses # 0 THEN SignedStr(r.total_misses) ELSE <<"-">>
        total_misses ==
            IF col /\ plain_misses # <<"-">>
            THEN IF plain_misses[1] = "+" THEN red(plain_misses) ELSE green(plain_misses)
            ELSE plain_misses
    IN IF IsTrue(ss)
       THEN LET missed_lines ==
                    [k \in 1..Len(r.missed_lines) |->
                        <<IF r.missed_lines[k][2] THEN "+" ELSE "-">>
                        \o Str(r.missed_lines[k][1])]
                missed_lines_colored ==
                    IF col
                    THEN [k \in 1..Len(missed_lines) |->
                            IF missed_lines[k][1] = "+"
                            THEN red(missed_lines[k]) ELSE green(missed_lines[k])]
                    ELSE missed_lines
            IN <<r.class_filename, total_statements, total_misses, line_rate,
                 Join(<<",", " ">>, missed_lines_colored)>>
       ELSE <<r.class_filename, total_statements, total_misses, line_rate>>

\* the table handed to tabulate: the formatted rows under the headers
TextReporterDelta_generate(d, ss, col) ==
    LET report_lines == get_report_lines(d, ss)
        formatted_lines ==
            [i \in 1..Len(report_lines) |->
                TextReporterDelta_format_row(report_lines[i], ss, col)]
        headers ==
            <<"Filename", "Stmts", "Miss", "Cover">>
            \o (IF IsTrue(ss) THEN <<"Missing">> ELSE <<>>)
    IN [rows |-> formatted_lines, headers |-> headers]

----------------------------------------------------------------------------
(* HtmlReporterDelta *)

get_source_hunks(d, class_filename) == class_source_hunks(d, class_filename)

HtmlReporterDelta_format_row(r, ss) ==
    LET total_statements ==
            IF r.total_statements # 0 THEN SignedStr(r.total_statements) ELSE <<"-">>
        total_misses ==
            IF r.total_misses # 0 THEN SignedStr(r.total_misses) ELSE <<"-">>
        line_rate ==
            IF r.line_rate[1] # 0 THEN SignedPercent(r.line_rate) ELSE <<"-">>
    IN IF IsTrue(ss)
       THEN class_row_missed(r.class_filename, total_statements, total_misses,
                             line_rate,
                             [k \in 1..Len(r.missed_lines) |->
                                 <<IF r.missed_lines[k][2] THEN "+" ELSE "-">>
                                 \o Str(r.missed_lines[k][1])])
       ELSE class_row(r.class_filename, total_statements, total_misses, line_rate)

Html_formatted_lines(d, ss) ==
    LET report_lines == get_report_lines(d, ss)
    IN [i \in 1..Len(report_lines) |->
            HtmlReporterDelta_format_row(report_lines[i], ss)]

NonEmptyHunks(entry) == entry[2] # <<>>

\* generate keeping the files whose hunks are empty
HtmlReporterDelta_generate_keep_empty(d, ss) ==
    LET formatted_lines == Html_formatted_lines(d, ss)
        ord == class_files(d)
        sources == [i \in 1..Len(ord) |-> <<ord[i], get_source_hunks(d, ord[i])>>]
        render == [lines |-> SubSeq(formatted_lines, 1, Len(formatted_lines) - 1),
                   footer |-> formatted_lines[Len(formatted_lines)],
                   show_source |-> ss]
    IN IF IsTrue(ss)
       THEN [lines |-> render.lines, footer |-> render.footer,
             show_source |-> ss, sources |-> sources]
       ELSE render

\* the keyword arguments handed to template.render
HtmlReporterDelta_generate(d, ss) ==
    LET formatted_lines == Html_formatted_lines(d, ss)
        ord == class_files(d)
        sources ==
            SelectSeq([i \in 1..Len(ord) |-> <<ord[i], get_source_hunks(d, ord[i])>>],
                      NonEmptyHunks)
        render == [lines |-> SubSeq(formatted_lines, 1, Len(formatted_lines) - 1),
                   footer |-> formatted_lines[Len(formatted_lines)],
                   show_source |-> ss]
    IN IF IsTrue(ss)
       THEN [lines |-> render.lines, footer |-> render.footer,
             show_source |-> ss, sources |-> sources]
       ELSE render

----------------------------------------------------------------------------
(* Specification of the delta report generators.  Every file present in a  *)
(* snapshot has MaxStmts statements.                                        *)

GenFileData == {d \in FileData : d.statements = MaxStmts}

GenCoberturas == UNION {[D -> GenFileData] : D \in SUBSET Files}

\* TextReporterDelta.__init__
NewTextReporterDelta ==
    /\ pc = "start"
    /\ \E c1 \in GenCoberturas, c2 \in GenCoberturas, ss \in ShowSourceValues,
          col \in BOOLEAN :
         /\ \E ord \in Perms(DOMAIN c1 \cup DOMAIN c2) :
              differ' = CoberturaDiff(c1, c2, ord, DOMAIN c1 \cap DOMAIN c2)
         /\ show_source' = ss
         /\ color' = col
    /\ kind' = "TextReporterDelta"
    /\ pc' = "constructed"
    /\ UNCHANGED <<cobertura, lines, row, formatted, source_hunks, render_kwargs>>

\* HtmlReporterDelta.__init__
NewHtmlReporterDelta ==
    /\ pc = "start"
    /\ \E c1 \in GenCoberturas, c2 \in GenCoberturas, ss \in ShowSourceValues :
         /\ \E ord \in Perms(DOMAIN c1 \cup DOMAIN c2),
               src \in SUBSET (DOMAIN c1 \cap DOMAIN c2) :
              differ' = CoberturaDiff(c1, c2, ord, src)
         /\ show_source' = ss
    /\ kind' = "HtmlReporterDelta"
    /\ pc' = "constructed"
    /\ UNCHANGED <<cobertura, color, lines, row, formatted, source_hunks, render_kwargs>>

\* TextReporterDelta.generate
TextDeltaGenerate ==
    /\ pc = "constructed"
    /\ kind = "TextReporterDelta"
    /\ lines' = get_report_lines(differ, show_source)
    /\ formatted' = TextReporterDelta_generate(differ, show_source, color).rows
    /\ render_kwargs' = TextReporterDelta_generate(differ, show_source, color)
    /\ pc' = "generated"
    /\ UNCHANGED <<kind, cobertura, differ, show_source, color, row, source_hunks>>

\* HtmlReporterDelta.generate
HtmlDeltaGenerate ==
    /\ pc = "constructed"
    /\ kind = "HtmlReporterDelta"
    /\ lines' = get_report_lines(differ, show_source)
    /\ formatted' = Html_formatted_lines(differ, show_source)
    /\ source_hunks' =
          IF IsTrue(show_source)
          THEN [i \in 1..Len(class_files(differ)) |->
                   get_source_hunks(differ, class_files(differ)[i])]
          ELSE <<>>
    /\ render_kwargs' = HtmlReporterDelta_generate(differ, show_source)
    /\ pc' = "generated"
    /\ UNCHANGED <<kind, cobertura, differ, show_source, color, row>>

NextGenerate ==
    \/ NewTextReporterDelta
    \/ NewHtmlReporterDelta
    \/ TextDeltaGenerate
    \/ HtmlDeltaGenerate

SpecGenerate == Init /\ [][NextGenerate]_vars

----------------------------------------------------------------------------
(* Properties of the delta report generators (specification SpecGenerate) *)

Generated == pc = "generated"

Marker(entry) == <<IF entry[2] THEN "+" ELSE "-">> \o Digits(entry[1])

Painted(entry) ==
    IF ~color THEN Marker(entry)
    ELSE <<IF entry[2] THEN "ESC[31m" ELSE "ESC[32m">> \o Marker(entry) \o <<"ESC[39m">>

\* C8: with show_source True both delta formatters turn the k-th entry
\* (line_number, is_new) of a row's missed_lines into the k-th marker,
\* '+<line_number>' when is_new and '-<line_number>' when not: as many
\* markers as entries, in the entries' order (the text formatter joins them
\* with ', ', each inside its colour codes when color is on).
C8_OneMarkerPerMissedLine ==
    Generated /\ IsTrue(show_source) =>
        /\ Len(formatted) = Len(lines)
        /\ \A i \in 1..Len(lines) :
             LET entries == lines[i].missed_lines IN
             IF kind = "HtmlReporterDelta"
             THEN /\ Len(formatted[i].missed_lines) = Len(entries)
                  /\ \A k \in 1..Len(entries) :
                       formatted[i].missed_lines[k] = Marker(entries[k])
             ELSE formatted[i][5] =
                    Join(<<",", " ">>, [k \in 1..Len(entries) |-> Painted(entries[k])])

C8_Witness ==
    /\ Generated
    /\ IsTrue(show_source)
    /\ kind = "TextReporterDelta"
    /\ ~color
    /\ Len(lines) = 3
    /\ lines[1].missed_lines = <<<<1, TRUE>>, <<2, FALSE>>>>
    /\ formatted[1][5] = <<"+", "1", ",", " ", "-", "2">>
    /\ formatted[2][5] = <<"-", "1">>

SourceIds == [i \in 1..Len(render_kwargs.sources) |-> render_kwargs.sources[i][1]]

\* C9: with show_source True, generate passes 'sources' holding, in
\* class_files() order, one entry (identifier, hunks) for exactly the
\* identifiers whose class_source_hunks is non-empty, whether or not the
\* identifier has a row in the report; a file without source text is skipped.
\* With show_source not True no hunks are requested and no 'sources' passed.
C9_SourcesAreNonEmptyHunks ==
    Generated /\ kind = "HtmlReporterDelta" =>
        IF IsTrue(show_source)
        THEN /\ "sources" \in DOMAIN render_kwargs
             /\ IsSubsequence(SourceIds, class_files(differ))
             /\ \A f \in AllFiles :
                  (f \in Range(SourceIds)) <=> (class_source_hunks(differ, f) # <<>>)
             /\ \A i \in 1..Len(render_kwargs.sources) :
                  render_kwargs.sources[i][2] =
                      class_source_hunks(differ, render_kwargs.sources[i][1])
             /\ \A f \in AllFiles : f \notin differ.sourced => f \notin Range(SourceIds)
             /\ Len(source_hunks) = Len(class_files(differ))
        ELSE /\ "sources" \notin DOMAIN render_kwargs
             /\ source_hunks = <<>>

C9_Witness ==
    /\ Generated
    /\ kind = "HtmlReporterDelta"
    /\ IsTrue(show_source)
    /\ Len(differ.order) = 2
    /\ Len(lines) = 3
    /\ differ.order[1] \notin differ.sourced
    /\ Len(render_kwargs.sources) = 1
    /\ render_kwargs.sources[1][1] = differ.order[2]

====
